---------------------------- MODULE Spec2Model ----------------------------
(***************************************************************************)
(* Model of the playback engine and the favorites store of sound-pad       *)
(* (src/src-tauri/src/lib.rs).                                             *)
(*                                                                         *)
(* The engine is three independently locked cells (sink, _stream,          *)
(* current_path).  Tauri runs the synchronous commands play_audio and      *)
(* stop_audio one at a time on one thread (the caller); every successful   *)
(* play_audio spawns a watcher thread.  One action of the model is one     *)
(* critical section of the code (one lock acquisition) or one call that    *)
(* touches the outside world (File::open, Decoder::new, the device).       *)
(***************************************************************************)
EXTENDS Naturals, Sequences, FiniteSets, TLC

\* Bound: how many play_audio / stop_audio calls the caller issues.
MaxCalls == 3

\* Bound: how many calls the caller issues in the specification with fairness.
MaxFairCalls == 2

\* Bound: how many add_favorite / remove_favorite calls are issued.
MaxFavCalls == 3

\* Bound: how many distinct paths the favorites commands are called with.
NumFavPaths == 3

\* Option::None of the three cells (sink and device ids, and paths, start at 1).
None == 0

\* The path strings play_audio is called with: 1 stands for "A", 2 for "B".
Paths == {1, 2}

\* The io::Error values File::open can fail with.
OpenErrors == {"NotFound", "PermissionDenied"}

\* open_file_with_retry(path, 3): the literal at the call site.
max_retries == 3

VARIABLES
    sink,          \* AudioPlayer.sink: None or the id of the installed Sink
    stream,        \* AudioPlayer._stream: None or the id of the installed pair
    current_path,  \* AudioPlayer.current_path: None or a path
    liveSinks,     \* the Sink objects that exist (created, not yet dropped)
    liveStreams,   \* the (OutputStream, OutputStreamHandle) pairs that exist
    drained,       \* the sinks whose queued audio has played to exhaustion
    callerPc,      \* where the command thread stands
    op,            \* the command it runs
    path,          \* play_audio's argument
    i,             \* open_file_with_retry: the loop index
    last_error,    \* open_file_with_retry: last_error
    opens,         \* the File::open calls of the open_file_with_retry call
    lastOpen,      \* the outcome of its latest File::open
    sleeps,        \* its 100 ms backoff sleeps
    decodes,       \* the Decoder::new calls of this call
    acquires,      \* the OutputStream::try_default calls of this call
    ret,           \* the value the command returned
    callLog,       \* the play_audio / stop_audio calls issued so far
    watchers,      \* the spawned watcher threads, keyed by the call that spawned them
    emitted,       \* the "audio-finished" events sent, in order
    favFile,       \* favorites.json: whether it exists, and its content (tokens)
    favLast,       \* the last favorites command and its result
    favCalls,      \* how many favorites commands have run
    held,          \* the mutexes each thread holds a guard of
    lockProg       \* the lock and unlock steps each thread has still to take

engineVars == <<sink, stream, current_path>>
objectVars == <<liveSinks, liveStreams, drained>>
retryVars == <<i, last_error, opens, lastOpen, sleeps, decodes, acquires>>
callerVars == <<callerPc, op, path, ret, callLog>>
favVars == <<favFile, favLast, favCalls>>
lockVars == <<held, lockProg>>
vars ==
    <<engineVars, objectVars, retryVars, callerVars, watchers, emitted, favVars,
      lockVars>>

\* ------------------------------------------------------------------ threads

\* The watcher threads of the lock protocol.
NumLockWatchers == 2

\* The thread that runs the commands.
CommandThread == 0

Threads == {CommandThread} \cup (1..NumLockWatchers)

\* The three Arc<Mutex<..>> fields of AudioPlayer.
Mutexes == {"sink", "_stream", "current_path"}

\* ------------------------------------------------------------------ values

RetNone == [kind |-> "none", retries |-> 0, err |-> ""]
RetOk == [kind |-> "Ok", retries |-> 0, err |-> ""]
RetBool(b) == [kind |-> IF b THEN "true" ELSE "false", retries |-> 0, err |-> ""]
\* Err(format!("Failed to open file after {} retries: {}", max_retries, last_error))
RetOpenErr(n, e) == [kind |-> "Err", retries |-> n, err |-> e]
\* Err(format!("デコーダーエラー: {}", e))
RetDecodeErr == [kind |-> "Err", retries |-> 0, err |-> "decoder"]
\* Err(e.to_string()) of OutputStream::try_default / Sink::try_new
RetDeviceErr == [kind |-> "Err", retries |-> 0, err |-> "device"]

\* The number of the running (or last) play_audio / stop_audio call; the Sink and
\* the device pair a play creates, and the watcher it spawns, carry this number.
CallId == Len(callLog)

SetRes(log, r) == [log EXCEPT ![Len(log)].res = r]

ResetRetry ==
    /\ i' = 0
    /\ last_error' = ""
    /\ opens' = 0
    /\ lastOpen' = ""
    /\ sleeps' = 0
    /\ decodes' = 0
    /\ acquires' = 0

\* Sink::empty() of the sink s.
SinkEmpty(s) == s \in drained

\* ------------------------------------------------------------------ commands

\* #[tauri::command] stop_audio is invoked.
StopAudioCall ==
    /\ callerPc = "idle"
    /\ CallId < MaxCalls
    /\ callerPc' = "stop_sink"
    /\ op' = "stop_audio"
    /\ path' = None
    /\ ret' = RetNone
    /\ callLog' = Append(callLog, [op |-> "stop_audio", path |-> None, res |-> "running"])
    /\ ResetRetry
    /\ UNCHANGED <<engineVars, objectVars, watchers, emitted, favVars, lockVars>>

\* play() without its leading self.stop().
PlayAudioCallMut(p) ==
    /\ callerPc = "idle"
    /\ CallId < MaxCalls
    /\ callerPc' = "open"
    /\ op' = "play_audio"
    /\ path' = p
    /\ ret' = RetNone
    /\ callLog' = Append(callLog, [op |-> "play_audio", path |-> p, res |-> "running"])
    /\ ResetRetry
    /\ UNCHANGED <<engineVars, objectVars, watchers, emitted, favVars, lockVars>>

\* #[tauri::command] play_audio(p) is invoked; play() begins with self.stop().
PlayAudioCall(p) ==
    /\ callerPc = "idle"
    /\ CallId < MaxCalls
    /\ callerPc' = "stop_sink"
    /\ op' = "play_audio"
    /\ path' = p
    /\ ret' = RetNone
    /\ callLog' = Append(callLog, [op |-> "play_audio", path |-> p, res |-> "running"])
    /\ ResetRetry
    /\ UNCHANGED <<engineVars, objectVars, watchers, emitted, favVars, lockVars>>

\* stop(): if let Some(sink) = self.sink.lock().unwrap().take() { sink.stop(); }
\* The taken Sink is stopped and dropped at the end of the block.
StopTakeSink ==
    /\ callerPc = "stop_sink"
    /\ sink' = None
    /\ liveSinks' = liveSinks \ {sink}
    /\ callerPc' = "stop_stream"
    /\ UNCHANGED <<stream, current_path, liveStreams, drained, retryVars, op, path,
                   ret, callLog, watchers, emitted, favVars, lockVars>>

\* stop() that leaves _stream as it is.
StopReleaseStreamMut ==
    /\ callerPc = "stop_stream"
    /\ callerPc' = "stop_path"
    /\ UNCHANGED <<engineVars, objectVars, retryVars, op, path, ret, callLog, watchers,
                   emitted, favVars, lockVars>>

\* stop(): *self._stream.lock().unwrap() = None;
StopReleaseStream ==
    /\ callerPc = "stop_stream"
    /\ stream' = None
    /\ liveStreams' = liveStreams \ {stream}
    /\ callerPc' = "stop_path"
    /\ UNCHANGED <<sink, current_path, liveSinks, drained, retryVars, op, path,
                   ret, callLog, watchers, emitted, favVars, lockVars>>

\* play_audio that stores its path before play() has opened the file.
StopClearPathMut ==
    /\ callerPc = "stop_path"
    /\ IF op = "stop_audio"
         THEN /\ current_path' = None
              /\ callerPc' = "returned"
              /\ ret' = RetOk
              /\ callLog' = SetRes(callLog, "Ok")
         ELSE /\ current_path' = path
              /\ callerPc' = "open"
              /\ UNCHANGED <<ret, callLog>>
    /\ UNCHANGED <<sink, stream, objectVars, retryVars, op, path, watchers, emitted,
                   favVars, lockVars>>

\* stop(): *self.current_path.lock().unwrap() = None;  Then stop_audio returns
\* Ok(()), and play() sleeps 50 ms and goes on to open the file.
StopClearPath ==
    /\ callerPc = "stop_path"
    /\ current_path' = None
    /\ IF op = "stop_audio"
         THEN /\ callerPc' = "returned"
              /\ ret' = RetOk
              /\ callLog' = SetRes(callLog, "Ok")
         ELSE /\ callerPc' = "open"
              /\ UNCHANGED <<ret, callLog>>
    /\ UNCHANGED <<sink, stream, objectVars, retryVars, op, path, watchers, emitted,
                   favVars, lockVars>>

\* A backoff after every failed attempt, the last one included.
ShouldSleepMut(k) == k < max_retries

\* open_file_with_retry: if i < max_retries - 1 { sleep(100 ms) }
ShouldSleep(k) == k < max_retries - 1

\* open_file_with_retry: one iteration of  for i in 0..max_retries  with the
\* outcome r of File::open(path).  Ok(file) returns at once (the function's locals
\* i and last_error are gone); after the last failed iteration the function
\* returns Err(.. max_retries, last_error) and play_audio returns it.
OpenAttempt(r) ==
    /\ callerPc = "open"
    /\ i < max_retries
    /\ opens' = opens + 1
    /\ lastOpen' = r
    /\ IF r = "ok"
         THEN /\ callerPc' = "decode"
              /\ i' = 0
              /\ last_error' = ""
              /\ UNCHANGED <<sleeps, ret, callLog>>
         ELSE /\ last_error' = r
              /\ sleeps' = IF ShouldSleep(i) THEN sleeps + 1 ELSE sleeps
              /\ i' = i + 1
              /\ IF i + 1 < max_retries
                   THEN /\ callerPc' = "open"
                        /\ UNCHANGED <<ret, callLog>>
                   ELSE /\ callerPc' = "returned"
                        /\ ret' = RetOpenErr(max_retries, last_error')
                        /\ callLog' = SetRes(callLog, "Err")
    /\ UNCHANGED <<engineVars, objectVars, decodes, acquires, op, path, watchers,
                   emitted, favVars, lockVars>>

\* play(): Decoder::new(file).map_err(..)?  on the file open_file_with_retry
\* returned (that call is over: its counts are dropped).
Decode(ok) ==
    /\ callerPc = "decode"
    /\ decodes' = decodes + 1
    /\ opens' = 0
    /\ lastOpen' = ""
    /\ sleeps' = 0
    /\ IF ok
         THEN /\ callerPc' = "device"
              /\ UNCHANGED <<ret, callLog>>
         ELSE /\ callerPc' = "returned"
              /\ ret' = RetDecodeErr
              /\ callLog' = SetRes(callLog, "Err")
    /\ UNCHANGED <<engineVars, objectVars, i, last_error, acquires, op, path,
                   watchers, emitted, favVars, lockVars>>

\* play(): OutputStream::try_default().map_err(..)?  creates a new device pair.
AcquireDevice(ok) ==
    /\ callerPc = "device"
    /\ acquires' = acquires + 1
    /\ IF ok
         THEN /\ liveStreams' = liveStreams \cup {CallId}
              /\ callerPc' = "new_sink"
              /\ UNCHANGED <<ret, callLog>>
         ELSE /\ callerPc' = "returned"
              /\ ret' = RetDeviceErr
              /\ callLog' = SetRes(callLog, "Err")
              /\ UNCHANGED liveStreams
    /\ UNCHANGED <<engineVars, liveSinks, drained, i, last_error, opens, lastOpen,
                   sleeps, decodes, op, path, watchers, emitted, favVars, lockVars>>

\* play() that records the device pair before it creates the sink.
CreateSinkMut(ok) ==
    /\ callerPc = "new_sink"
    /\ stream' = CallId
    /\ IF ok
         THEN /\ liveSinks' = liveSinks \cup {CallId}
              /\ callerPc' = "set_sink"
              /\ UNCHANGED <<ret, callLog>>
         ELSE /\ callerPc' = "returned"
              /\ ret' = RetDeviceErr
              /\ callLog' = SetRes(callLog, "Err")
              /\ UNCHANGED liveSinks
    /\ UNCHANGED <<sink, current_path, liveStreams, drained, retryVars, op, path,
                   watchers, emitted, favVars, lockVars>>

\* play(): Sink::try_new(&stream_handle).map_err(..)?; sink.append(source);
\* sink.play();  On the error return the local device pair is dropped.
CreateSink(ok) ==
    /\ callerPc = "new_sink"
    /\ IF ok
         THEN /\ liveSinks' = liveSinks \cup {CallId}
              /\ callerPc' = "set_sink"
              /\ UNCHANGED <<liveStreams, ret, callLog>>
         ELSE /\ liveStreams' = liveStreams \ {CallId}
              /\ callerPc' = "returned"
              /\ ret' = RetDeviceErr
              /\ callLog' = SetRes(callLog, "Err")
              /\ UNCHANGED liveSinks
    /\ UNCHANGED <<engineVars, drained, retryVars, op, path, watchers, emitted,
                   favVars, lockVars>>

\* play(): *self.sink.lock().unwrap() = Some(sink);  The replaced value is dropped.
SetSink ==
    /\ callerPc = "set_sink"
    /\ sink' = CallId
    /\ liveSinks' = (liveSinks \ {sink}) \cup {CallId}
    /\ callerPc' = "set_stream"
    /\ UNCHANGED <<stream, current_path, liveStreams, drained, retryVars, op, path,
                   ret, callLog, watchers, emitted, favVars, lockVars>>

\* play(): *self._stream.lock().unwrap() = Some((stream, stream_handle)); Ok(())
SetStream ==
    /\ callerPc = "set_stream"
    /\ stream' = CallId
    /\ liveStreams' = (liveStreams \ {stream}) \cup {CallId}
    /\ callerPc' = "set_path"
    /\ UNCHANGED <<sink, current_path, liveSinks, drained, retryVars, op, path,
                   ret, callLog, watchers, emitted, favVars, lockVars>>

\* play_audio: *state.inner().current_path.lock().unwrap() = Some(path.clone());
SetCurrentPath ==
    /\ callerPc = "set_path"
    /\ current_path' = path
    /\ callerPc' = "spawn"
    /\ UNCHANGED <<sink, stream, objectVars, retryVars, op, path, ret, callLog,
                   watchers, emitted, favVars, lockVars>>

\* play_audio: thread::spawn(move || { loop { .. } }); Ok(())
SpawnWatcher ==
    /\ callerPc = "spawn"
    /\ watchers' = watchers @@ (CallId :> [file_path |-> path, pc |-> "poll"])
    /\ callerPc' = "returned"
    /\ ret' = RetOk
    /\ callLog' = SetRes(callLog, "Ok")
    /\ UNCHANGED <<engineVars, objectVars, retryVars, op, path, emitted, favVars,
                   lockVars>>

\* is_playing() that only asks whether a sink is installed.
is_playingMut == sink # None

\* AudioPlayer::is_playing(), called between two commands.
is_playing == IF sink # None THEN ~SinkEmpty(sink) ELSE FALSE

IsPlayingCall ==
    /\ callerPc = "idle"
    /\ callerPc' = "returned"
    /\ op' = "is_playing"
    /\ path' = None
    /\ ret' = RetBool(is_playing)
    /\ UNCHANGED <<engineVars, objectVars, retryVars, callLog, watchers, emitted,
                   favVars, lockVars>>

\* The command has returned; its locals are gone.
Return ==
    /\ callerPc = "returned"
    /\ callerPc' = "idle"
    /\ op' = "none"
    /\ path' = None
    /\ ret' = RetNone
    /\ ResetRetry
    /\ UNCHANGED <<engineVars, objectVars, callLog, watchers, emitted, favVars,
                   lockVars>>

\* ------------------------------------------------------------------ the world

\* The audio queued in a sink plays to its end.
Drain(s) ==
    /\ s \in liveSinks \ drained
    /\ drained' = drained \cup {s}
    /\ UNCHANGED <<engineVars, liveSinks, liveStreams, retryVars, callerVars,
                   watchers, emitted, favVars, lockVars>>

\* ------------------------------------------------------------------ watcher

\* A watcher that keeps polling while there is no sink.
WatcherPollMut(w) ==
    /\ w \in DOMAIN watchers
    /\ watchers[w].pc = "poll"
    /\ LET is_empty == IF sink # None THEN SinkEmpty(sink) ELSE FALSE
       IN watchers' = [watchers EXCEPT ![w].pc = IF is_empty THEN "check" ELSE "poll"]
    /\ UNCHANGED <<engineVars, objectVars, retryVars, callerVars, emitted, favVars,
                   lockVars>>

\* loop { sleep(100 ms); let is_empty = { if let Some(sink) =
\*   player.sink.lock().unwrap().as_ref() { sink.empty() } else { true } }; .. }
WatcherPoll(w) ==
    /\ w \in DOMAIN watchers
    /\ watchers[w].pc = "poll"
    /\ LET is_empty == IF sink # None THEN SinkEmpty(sink) ELSE TRUE
       IN watchers' = [watchers EXCEPT ![w].pc = IF is_empty THEN "check" ELSE "poll"]
    /\ UNCHANGED <<engineVars, objectVars, retryVars, callerVars, emitted, favVars,
                   lockVars>>

\* A watcher that emits when the paths differ.
WatcherCheckMut(w) ==
    /\ w \in DOMAIN watchers
    /\ watchers[w].pc = "check"
    /\ LET current == current_path
       IN watchers' = [watchers EXCEPT
              ![w].pc = IF current # watchers[w].file_path THEN "emit" ELSE "done"]
    /\ UNCHANGED <<engineVars, objectVars, retryVars, callerVars, emitted, favVars,
                   lockVars>>

\* let current = player.current_path.lock().unwrap().clone();
\* if current.as_deref() == Some(&file_path) { .. } break;
WatcherCheck(w) ==
    /\ w \in DOMAIN watchers
    /\ watchers[w].pc = "check"
    /\ LET current == current_path
       IN watchers' = [watchers EXCEPT
              ![w].pc = IF current = watchers[w].file_path THEN "emit" ELSE "done"]
    /\ UNCHANGED <<engineVars, objectVars, retryVars, callerVars, emitted, favVars,
                   lockVars>>

\* let _ = app_handle.emit("audio-finished", file_path.clone());
WatcherEmit(w) ==
    /\ w \in DOMAIN watchers
    /\ watchers[w].pc = "emit"
    /\ emitted' = Append(emitted, [path |-> watchers[w].file_path, by |-> w])
    /\ watchers' = [watchers EXCEPT ![w].pc = "clear"]
    /\ UNCHANGED <<engineVars, objectVars, retryVars, callerVars, favVars, lockVars>>

\* *player.current_path.lock().unwrap() = None; break;
WatcherClear(w) ==
    /\ w \in DOMAIN watchers
    /\ watchers[w].pc = "clear"
    /\ current_path' = None
    /\ watchers' = [watchers EXCEPT ![w].pc = "done"]
    /\ UNCHANGED <<sink, stream, objectVars, retryVars, callerVars, emitted, favVars,
                   lockVars>>

WatcherStep(w) ==
    \/ WatcherPoll(w)
    \/ WatcherCheck(w)
    \/ WatcherEmit(w)
    \/ WatcherClear(w)

\* ------------------------------------------------------------------ engine spec

\* No favorites command runs in the engine's specification.
FavIdle ==
    /\ favFile = [exists |-> FALSE, content |-> <<>>]
    /\ favLast = [op |-> "none", path |-> 0, res |-> "none", saved |-> FALSE]
    /\ favCalls = 0

\* No thread holds a guard or is inside a method.
LockIdle ==
    /\ held = [t \in Threads |-> {}]
    /\ lockProg = [t \in Threads |-> <<>>]

\* AudioPlayer::new(), before any command.
EngineInit ==
    /\ sink = None
    /\ stream = None
    /\ current_path = None
    /\ liveSinks = {}
    /\ liveStreams = {}
    /\ drained = {}
    /\ callerPc = "idle"
    /\ op = "none"
    /\ path = None
    /\ i = 0
    /\ last_error = ""
    /\ opens = 0
    /\ lastOpen = ""
    /\ sleeps = 0
    /\ decodes = 0
    /\ acquires = 0
    /\ ret = RetNone
    /\ callLog = <<>>
    /\ watchers = <<>>
    /\ emitted = <<>>

Init == EngineInit /\ FavIdle /\ LockIdle

Next ==
    \/ StopAudioCall
    \/ \E p \in Paths : PlayAudioCall(p)
    \/ StopTakeSink
    \/ StopReleaseStream
    \/ StopClearPath
    \/ \E r \in {"ok"} \cup OpenErrors : OpenAttempt(r)
    \/ \E ok \in BOOLEAN : Decode(ok)
    \/ \E ok \in BOOLEAN : AcquireDevice(ok)
    \/ \E ok \in BOOLEAN : CreateSink(ok)
    \/ SetSink
    \/ SetStream
    \/ SetCurrentPath
    \/ SpawnWatcher
    \/ IsPlayingCall
    \/ Return
    \/ \E s \in 1..MaxCalls : Drain(s)
    \/ \E w \in 1..MaxCalls : WatcherStep(w)

Spec == Init /\ [][Next]_vars

\* ------------------------------------------------------------------ favorites

\* The paths the favorites commands are called with.
FavPaths == 1..NumFavPaths

\* The tokens of the JSON document { "files": [ "p", .. ] }.
Tok(t) == [t |-> t, v |-> 0]
StrTok(f) == [t |-> "str", v |-> f]

RECURSIVE JoinItems(_)
JoinItems(files) ==
    IF files = <<>> THEN <<>>
    ELSE IF Len(files) = 1 THEN <<StrTok(files[1])>>
    ELSE <<StrTok(files[1]), Tok(",")>> \o JoinItems(Tail(files))

\* Favorites::save: serde_json::to_string_pretty(self)
Serialize(files) ==
    <<Tok("{"), Tok("files"), Tok(":"), Tok("[")>> \o JoinItems(files)
        \o <<Tok("]"), Tok("}")>>

\* Favorites::load: serde_json::from_str(&content); a document that is not
\* { "files": [ strings separated by commas ] } is an error.
Parse(content) ==
    LET n == Len(content)
        items == IF n >= 6 THEN SubSeq(content, 5, n - 2) ELSE <<>>
        m == Len(items)
        wellFormed ==
            /\ n >= 6
            /\ content[1] = Tok("{")
            /\ content[2] = Tok("files")
            /\ content[3] = Tok(":")
            /\ content[4] = Tok("[")
            /\ content[n - 1] = Tok("]")
            /\ content[n] = Tok("}")
            /\ m = 0 \/ m % 2 = 1
            /\ \A k \in 1..m : IF k % 2 = 1 THEN items[k].t = "str"
                                             ELSE items[k] = Tok(",")
    IN IF wellFormed
         THEN [ok |-> TRUE, files |-> [k \in 1..((m + 1) \div 2) |-> items[2 * k - 1].v]]
         ELSE [ok |-> FALSE, files |-> <<>>]

\* Favorites::load(path): a missing file is Favorites::new(); a file that cannot
\* be read or parsed is an error.
Load(file, readOk) ==
    IF ~file.exists THEN [ok |-> TRUE, files |-> <<>>]
    ELSE IF ~readOk THEN [ok |-> FALSE, files |-> <<>>]
    ELSE Parse(file.content)

\* Favorites::save(path): File::create truncates the file, write_all fills it; a
\* failed create leaves the file as it was, a failed write leaves the first
\* written tokens of the document, never all of them.
Save(file, files, io, written) ==
    LET doc == Serialize(files)
        cut == IF written < Len(doc) THEN written ELSE Len(doc) - 1
    IN IF io = "create_err" THEN file
       ELSE IF io = "write_err" THEN [exists |-> TRUE, content |-> SubSeq(doc, 1, cut)]
       ELSE [exists |-> TRUE, content |-> doc]

\* favorites.files.contains(&file_path)
Contains(files, f) == \E k \in 1..Len(files) : files[k] = f

\* favorites.files.retain(|f| f != &file_path)
Retain(files, f) == SelectSeq(files, LAMBDA x : x # f)

\* add_favorite that pushes without looking.
ShouldPushMut(files, f) == TRUE

\* add_favorite: if !favorites.files.contains(&file_path) { push; save }
ShouldPush(files, f) == ~Contains(files, f)

\* The outcomes of the I/O a favorites command does.
FavIo == {"ok", "path_err", "read_err", "create_err", "write_err"}

FavResult(f, o, r, s) == [op |-> o, path |-> f, res |-> r, saved |-> s]

\* #[tauri::command] add_favorite(file_path)
add_favorite(f, io, written) ==
    /\ favCalls < MaxFavCalls
    /\ io # "write_err" => written = 0
    /\ favCalls' = favCalls + 1
    /\ LET loaded == Load(favFile, io # "read_err")
       IN IF io = "path_err" \/ ~loaded.ok
            THEN /\ favLast' = FavResult(f, "add", "Err", FALSE)
                 /\ UNCHANGED favFile
            ELSE IF ShouldPush(loaded.files, f)
              THEN /\ favFile' = Save(favFile, Append(loaded.files, f), io, written)
                   /\ favLast' = FavResult(f, "add",
                         IF io \in {"create_err", "write_err"} THEN "Err" ELSE "Ok",
                         TRUE)
              ELSE /\ favLast' = FavResult(f, "add", "Ok", FALSE)
                   /\ UNCHANGED favFile
    /\ UNCHANGED <<engineVars, objectVars, retryVars, callerVars, watchers, emitted,
                   lockVars>>

\* #[tauri::command] remove_favorite(file_path)
remove_favorite(f, io, written) ==
    /\ favCalls < MaxFavCalls
    /\ io # "write_err" => written = 0
    /\ favCalls' = favCalls + 1
    /\ LET loaded == Load(favFile, io # "read_err")
       IN IF io = "path_err" \/ ~loaded.ok
            THEN /\ favLast' = FavResult(f, "remove", "Err", FALSE)
                 /\ UNCHANGED favFile
            ELSE /\ favFile' = Save(favFile, Retain(loaded.files, f), io, written)
                 /\ favLast' = FavResult(f, "remove",
                       IF io \in {"create_err", "write_err"} THEN "Err" ELSE "Ok",
                       TRUE)
    /\ UNCHANGED <<engineVars, objectVars, retryVars, callerVars, watchers, emitted,
                   lockVars>>

\* The duplicate-free lists of paths.
NoDup(files) == \A a, b \in 1..Len(files) : files[a] = files[b] => a = b

NoDupLists ==
    {l \in UNION {[1..n -> FavPaths] : n \in 0..NumFavPaths} : NoDup(l)}

\* The favorites file is missing or holds a duplicate-free list.
FavInit ==
    /\ EngineInit
    /\ LockIdle
    /\ favFile \in {[exists |-> FALSE, content |-> <<>>]}
                     \cup {[exists |-> TRUE, content |-> Serialize(l)] : l \in NoDupLists}
    /\ favLast = [op |-> "none", path |-> 0, res |-> "none", saved |-> FALSE]
    /\ favCalls = 0

\* How many tokens a failed write_all can have written: fewer than the whole
\* document of the longest list.
MaxWritten == 2 * NumFavPaths + 4

FavNext ==
    \/ \E f \in FavPaths, io \in FavIo, written \in 0..MaxWritten :
          add_favorite(f, io, written)
    \/ \E f \in FavPaths, io \in FavIo, written \in 0..MaxWritten :
          remove_favorite(f, io, written)

FavSpec == FavInit /\ [][FavNext]_vars

\* Watcher threads are scheduled by the operating system: a watcher that can take
\* a step eventually takes it.
\* Next, with at most MaxFairCalls calls issued.
FairNext ==
    \/ CallId < MaxFairCalls /\ StopAudioCall
    \/ CallId < MaxFairCalls /\ \E p \in Paths : PlayAudioCall(p)
    \/ StopTakeSink
    \/ StopReleaseStream
    \/ StopClearPath
    \/ \E r \in {"ok"} \cup OpenErrors : OpenAttempt(r)
    \/ \E ok \in BOOLEAN : Decode(ok)
    \/ \E ok \in BOOLEAN : AcquireDevice(ok)
    \/ \E ok \in BOOLEAN : CreateSink(ok)
    \/ SetSink
    \/ SetStream
    \/ SetCurrentPath
    \/ SpawnWatcher
    \/ IsPlayingCall
    \/ Return
    \/ \E s \in 1..MaxFairCalls : Drain(s)
    \/ \E w \in 1..MaxFairCalls : WatcherStep(w)

FairSpec ==
    Init /\ [][FairNext]_vars /\ \A w \in 1..MaxFairCalls : WF_vars(WatcherStep(w))

\* ------------------------------------------------------------------ locks

\* x.lock().unwrap() of a statement whose guard is a temporary: the guard is
\* dropped, and the mutex unlocked, when the statement ends.
Locked(m) == <<[a |-> "lock", m |-> m], [a |-> "unlock", m |-> m]>>

\* A stop() that takes the _stream guard while it still holds the sink guard.
stopLocksMut ==
    <<[a |-> "lock", m |-> "sink"], [a |-> "lock", m |-> "_stream"],
      [a |-> "unlock", m |-> "_stream"], [a |-> "unlock", m |-> "sink"]>>
        \o Locked("current_path")

\* stop(): if let Some(sink) = self.sink.lock().unwrap().take() { sink.stop(); }
\*         *self._stream.lock().unwrap() = None;
\*         *self.current_path.lock().unwrap() = None;
stopLocks == Locked("sink") \o Locked("_stream") \o Locked("current_path")

\* play(): self.stop(); ..; and, when nothing failed,
\*         *self.sink.lock().unwrap() = Some(sink);
\*         *self._stream.lock().unwrap() = Some((stream, stream_handle));
playLocks(ok) ==
    IF ok THEN stopLocks \o Locked("sink") \o Locked("_stream") ELSE stopLocks

\* play_audio: state.inner().play(&path)?;
\*             *state.inner().current_path.lock().unwrap() = Some(path.clone());
play_audioLocks(ok) ==
    IF ok THEN playLocks(TRUE) \o Locked("current_path") ELSE playLocks(FALSE)

\* get_current_path(): self.current_path.lock().unwrap().clone()
get_current_pathLocks == Locked("current_path")

\* is_playing(): if let Some(sink) = self.sink.lock().unwrap().as_ref() { .. }
is_playingLocks == Locked("sink")

\* One turn of the watcher's loop: the sink is read; when it is empty (is_empty)
\* current_path is read; when it matches (matches) the event is emitted with no
\* guard held and current_path is written.
watcherLocks(is_empty, matches) ==
    Locked("sink")
        \o (IF is_empty THEN Locked("current_path") ELSE <<>>)
        \o (IF is_empty /\ matches THEN Locked("current_path") ELSE <<>>)

\* The lock sequences the command thread can run.
CommandLocks ==
    {stopLocks, get_current_pathLocks, is_playingLocks}
        \cup {play_audioLocks(ok) : ok \in BOOLEAN}

\* The lock sequences a watcher thread can run.
WatcherLocks ==
    {watcherLocks(e, m) : e \in BOOLEAN, m \in BOOLEAN}

\* Mutex m is locked by some thread.
IsLocked(m) == \E t \in Threads : m \in held[t]

\* Thread t enters a method, or a watcher a turn of its loop.
LockBegin(t, prog) ==
    /\ lockProg[t] = <<>>
    /\ prog \in (IF t = CommandThread THEN CommandLocks ELSE WatcherLocks)
    /\ lockProg' = [lockProg EXCEPT ![t] = prog]
    /\ UNCHANGED <<engineVars, objectVars, retryVars, callerVars, watchers, emitted,
                   favVars, held>>

\* Mutex::lock(): blocks until the mutex is free, then returns the guard.
LockAcquire(t) ==
    /\ lockProg[t] # <<>>
    /\ Head(lockProg[t]).a = "lock"
    /\ ~IsLocked(Head(lockProg[t]).m)
    /\ held' = [held EXCEPT ![t] = @ \cup {Head(lockProg[t]).m}]
    /\ lockProg' = [lockProg EXCEPT ![t] = Tail(@)]
    /\ UNCHANGED <<engineVars, objectVars, retryVars, callerVars, watchers, emitted,
                   favVars>>

\* The guard is dropped.
LockRelease(t) ==
    /\ lockProg[t] # <<>>
    /\ Head(lockProg[t]).a = "unlock"
    /\ held' = [held EXCEPT ![t] = @ \ {Head(lockProg[t]).m}]
    /\ lockProg' = [lockProg EXCEPT ![t] = Tail(@)]
    /\ UNCHANGED <<engineVars, objectVars, retryVars, callerVars, watchers, emitted,
                   favVars>>

LockNext ==
    \/ \E t \in Threads, prog \in CommandLocks \cup WatcherLocks : LockBegin(t, prog)
    \/ \E t \in Threads : LockAcquire(t)
    \/ \E t \in Threads : LockRelease(t)

LockSpec == Init /\ [][LockNext]_vars

\* ------------------------------------------------------------------ claims

\* Call k was a play_audio that returned Ok.
PlayedOk(k) ==
    /\ k \in 1..Len(callLog)
    /\ callLog[k].op = "play_audio"
    /\ callLog[k].res = "Ok"

\* The event a watcher of call k sends.
Finished(k) == [path |-> callLog[k].path, by |-> k]

EngineIdle == sink = None /\ stream = None /\ current_path = None

\* C1: play_audio(A) succeeds, then stop() is called before A's sink becomes
\* empty, and nothing else is called: no "audio-finished" event is ever emitted.
C1_NoFinishedAfterStop ==
    (/\ Len(callLog) = 2
     /\ PlayedOk(1)
     /\ callLog[2].op = "stop_audio"
     /\ 1 \notin drained)
        => emitted = <<>>

\* C2: play_audio(A) succeeds, then play_audio(B) with B # A is called before A's
\* sink becomes empty: no event carries A, and at most one event is emitted.
C2_NoFinishedForReplaced ==
    (/\ Len(callLog) = 2
     /\ PlayedOk(1)
     /\ callLog[2].op = "play_audio"
     /\ callLog[2].path # callLog[1].path
     /\ 1 \notin drained)
        => /\ \A n \in 1..Len(emitted) : emitted[n].path # callLog[1].path
           /\ Len(emitted) <= 1

\* play_audio(A) succeeded and no other play or stop has been issued.
SinglePlayOk == Len(callLog) = 1 /\ PlayedOk(1)

C3_Done ==
    /\ emitted = <<Finished(1)>>
    /\ current_path = None
    /\ watchers[1].pc = "done"

\* C3: when play_audio(A) succeeded and no other play or stop is issued, then once
\* A's sink is empty the watcher eventually emits exactly one event carrying A,
\* clears current_path and terminates; no event but that one is ever emitted.
C3_NaturalFinish ==
    /\ [](SinglePlayOk => emitted \in {<<>>, <<Finished(1)>>})
    /\ [](SinglePlayOk /\ watchers[1].pc = "done" /\ 1 \in drained => C3_Done)
    /\ (SinglePlayOk /\ 1 \in drained) ~> (~SinglePlayOk \/ C3_Done)

C3_Witness == SinglePlayOk /\ 1 \in drained /\ C3_Done

\* C4: a play_audio that failed returned an error, left no sink, no device and no
\* current_path recorded, spawned no watcher, and no event was emitted for it.
C4_FailedPlayLeavesNothing ==
    \A k \in 1..Len(callLog) :
        (callLog[k].op = "play_audio" /\ callLog[k].res = "Err") =>
            /\ k \notin DOMAIN watchers
            /\ \A n \in 1..Len(emitted) : emitted[n].by # k
            /\ sink # k /\ stream # k
            /\ k \notin liveSinks /\ k \notin liveStreams
            /\ k = CallId => EngineIdle
            /\ (k = CallId /\ callerPc = "returned" /\ op = "play_audio")
                   => ret.kind = "Err"

C4_Witness ==
    /\ callerPc = "returned"
    /\ op = "play_audio"
    /\ ret = RetDeviceErr
    /\ CallId = 2
    /\ PlayedOk(1)

\* C5: stop() never fails and is idempotent: when stop() returns, sink, device and
\* current_path are all None, and a stop_audio that follows a stop_audio changes
\* nothing of the engine.
C5_StopIdempotent ==
    [][/\ (callerPc = "stop_path" /\ callerPc' # callerPc) => EngineIdle'
       /\ (callerPc = "stop_path" /\ callerPc' = "returned") => ret' = RetOk
       /\ (/\ CallId >= 2
           /\ callLog[CallId - 1].op = "stop_audio"
           /\ callLog[CallId].op = "stop_audio"
           /\ callerPc' # callerPc)
              => UNCHANGED <<engineVars, objectVars>>]_vars

C5_Witness ==
    /\ CallId = 3
    /\ PlayedOk(1)
    /\ callLog[2].op = "stop_audio"
    /\ callLog[3].op = "stop_audio"
    /\ callerPc = "returned"

\* C6: once a stop_audio call has returned, no event is emitted for a play that
\* was started before that stop.
C6_StopInvalidatesWatchers ==
    [][\A w \in DOMAIN watchers :
          (watchers[w].pc = "emit" /\ watchers'[w].pc = "clear") =>
              ~ \E k \in (w + 1)..Len(callLog) :
                    callLog[k].op = "stop_audio" /\ callLog[k].res = "Ok"]_vars

\* C7: at most one device pair and at most one sink exist at any time; the
\* previous play's pair and sink are gone before a play acquires its own; and a
\* successful play has installed the sink and the pair it created itself.
C7_OneDeviceOneSink ==
    /\ Cardinality(liveSinks) <= 1
    /\ Cardinality(liveStreams) <= 1
    /\ sink # None => sink \in liveSinks
    /\ stream # None => stream \in liveStreams
    /\ callerPc \in {"open", "decode", "device"} => liveSinks = {} /\ liveStreams = {}
    /\ callerPc = "new_sink" => liveSinks = {} /\ liveStreams = {CallId}
    /\ (callerPc = "returned" /\ op = "play_audio" /\ ret = RetOk)
           => sink = CallId /\ stream = CallId

C7_Witness ==
    /\ CallId = 2
    /\ PlayedOk(1)
    /\ PlayedOk(2)
    /\ callLog[1].path = callLog[2].path
    /\ callerPc = "returned"
    /\ sink = 2
    /\ stream = 2

\* C8: open_file_with_retry makes at most 3 attempts, stops at the first success,
\* sleeps only between attempts, and returns an error only after exactly 3 failed
\* attempts, carrying the last attempt's error; decoding and device acquisition
\* are tried once.
C8_OpenWithRetry ==
    /\ opens <= 3
    /\ decodes <= 1
    /\ acquires <= 1
    /\ callerPc = "open" =>
          /\ opens = i
          /\ sleeps = i
          /\ i < 3
          /\ i > 0 => lastOpen \in OpenErrors /\ last_error = lastOpen
    /\ callerPc = "decode" =>
          /\ lastOpen = "ok"
          /\ opens \in 1..3
          /\ sleeps = opens - 1
          /\ decodes = 0
    /\ (callerPc = "returned" /\ op = "play_audio" /\ ret.kind = "Err") =>
          \/ /\ ret = RetOpenErr(3, lastOpen)
             /\ lastOpen \in OpenErrors
             /\ opens = 3
             /\ sleeps = 2
             /\ decodes = 0
             /\ acquires = 0
          \/ ret = RetDecodeErr /\ opens = 0 /\ decodes = 1 /\ acquires = 0
          \/ ret = RetDeviceErr /\ opens = 0 /\ decodes = 1 /\ acquires = 1

C8_Witness ==
    /\ callerPc = "returned"
    /\ op = "play_audio"
    /\ ret = RetOpenErr(3, "NotFound")
    /\ opens = 3
    /\ sleeps = 2

\* C9: is_playing() returns true exactly when a sink is installed and not empty;
\* it returns false after stop(), after a failed play, and when the installed
\* sink has played to exhaustion.
C9_IsPlaying ==
    [][(callerPc = "idle" /\ callerPc' = "returned" /\ op' = "is_playing") =>
          /\ ret'.kind \in {"true", "false"}
          /\ ret'.kind = "true" <=> (sink # None /\ sink \notin drained)
          /\ (sink # None /\ sink \in drained) => ret'.kind = "false"
          /\ (CallId > 0 /\ callLog[CallId].op = "stop_audio") => ret'.kind = "false"
          /\ (CallId > 0 /\ callLog[CallId].res = "Err") => ret'.kind = "false"]_vars

C9_Witness ==
    /\ callerPc = "returned"
    /\ op = "is_playing"
    /\ ret = RetBool(FALSE)
    /\ sink # None
    /\ sink \in drained

\* How often f occurs in files.
Count(files, f) == Cardinality({k \in 1..Len(files) : files[k] = f})

\* C10: starting from a missing or duplicate-free favorites file, the persisted
\* list never holds a path twice; an add_favorite(P) that succeeded leaves P in
\* the list exactly once, and an add_favorite(P) of a P already in the list
\* changes nothing.
C10_NoDuplicateFavorites ==
    [][/\ Parse(favFile'.content).ok => NoDup(Parse(favFile'.content).files)
       /\ (favLast'.op = "add" /\ favLast'.res = "Ok") =>
              /\ Parse(favFile'.content).ok
              /\ Count(Parse(favFile'.content).files, favLast'.path) = 1
       /\ (/\ favLast'.op = "add"
           /\ Parse(favFile.content).ok
           /\ Contains(Parse(favFile.content).files, favLast'.path))
              => favFile' = favFile]_vars

C10_Witness ==
    /\ favCalls >= 2
    /\ favLast.op = "add"
    /\ favLast.res = "Ok"
    /\ ~favLast.saved
    /\ Len(Parse(favFile.content).files) >= 2

\* Watcher w has sent its event.
HasEmitted(w) == \E n \in 1..Len(emitted) : emitted[n].by = w

\* Watcher w sends its event in this step.
Emits(w) == watchers[w].pc = "emit" /\ watchers'[w].pc = "clear"

\* play_audio(p) has been called after call k.
PlayedAgainSince(k, p) ==
    \E j \in (k + 1)..Len(callLog) :
        callLog[j].op = "play_audio" /\ callLog[j].path = p

\* C11: once a watcher has emitted an event for path P and cleared current_path,
\* no other watcher emits an event for P unless play_audio(P) has been called
\* again in between.  Stated for the calls issued since the first watcher was
\* spawned, which include every call issued since it cleared current_path.
C11_NoDoubleFiring ==
    [][\A w \in DOMAIN watchers :
          Emits(w) =>
              ~ \E v \in DOMAIN watchers \ {w} :
                    /\ watchers[v].pc = "done"
                    /\ HasEmitted(v)
                    /\ watchers[v].file_path = watchers[w].file_path
                    /\ ~PlayedAgainSince(v, watchers[w].file_path)]_vars

\* C12: a watcher writes None to current_path only when current_path equals its
\* own path at the moment of the write, and a watcher that finds a mismatch exits
\* without emitting and without changing sink, device or current_path.
C12_WatcherClearsOnlyOwnPath ==
    [][\A w \in DOMAIN watchers :
          /\ (watchers[w].pc = "clear" /\ watchers'[w].pc = "done")
                => current_path = watchers[w].file_path
          /\ (watchers[w].pc = "check" /\ watchers'[w].pc = "done")
                => /\ current_path # watchers[w].file_path
                   /\ UNCHANGED <<engineVars, emitted>>]_vars

\* C18: after a play_audio that failed the engine is idle whatever was playing
\* before, and the watcher of the track that was playing emits no event for it.
C18_FailedPlayStopsPrevious ==
    (/\ Len(callLog) = 2
     /\ PlayedOk(1)
     /\ 1 \notin drained
     /\ callLog[2].op = "play_audio"
     /\ callLog[2].res = "Err")
        => EngineIdle /\ ~HasEmitted(1)

\* The running call is a play_audio that has not returned.
PlayRunning ==
    /\ CallId > 0
    /\ callLog[CallId].op = "play_audio"
    /\ callLog[CallId].res = "running"

\* C13 as claimed: play records sink, device and current_path atomically: no
\* state shows the new play's sink installed while its device or its path is not.
C13_AtomicRecord ==
    (PlayRunning /\ sink = CallId) => (stream = CallId /\ current_path = path)

\* C13, amended: play records the three cells one at a time, in the order sink,
\* device pair, current_path: the new sink can be seen while device and
\* current_path are still None, sink and device while current_path is still
\* None, and current_path is never written before sink and device are installed.
C13_RecordedInOrder ==
    PlayRunning =>
        /\ callerPc \in {"stop_path", "open", "decode", "device", "new_sink", "set_sink"}
              => sink = None
        /\ callerPc \in {"open", "decode", "device", "new_sink", "set_sink"}
              => stream = None /\ current_path = None
        /\ callerPc = "set_stream"
              => sink = CallId /\ stream = None /\ current_path = None
        /\ callerPc = "set_path"
              => sink = CallId /\ stream = CallId /\ current_path = None
        /\ callerPc = "spawn"
              => sink = CallId /\ stream = CallId /\ current_path \in {path, None}

C13_Witness ==
    /\ PlayRunning
    /\ CallId = 2
    /\ PlayedOk(1)
    /\ callerPc = "set_stream"
    /\ sink = 2
    /\ stream = None
    /\ current_path = None
    /\ watchers[1].pc = "poll"

\* C14 as claimed: in every reachable state the sink is present if and only if
\* the device pair is present.
C14_SinkIffDevice == (sink # None) <=> (stream # None)

\* C14, amended: the sink is present if and only if the device pair is, except
\* between the two writes of stop() (the sink is taken, the pair still there) and
\* between the two writes of play() (the sink is installed, the pair not yet).
C14_SinkIffDeviceOutsideWindows ==
    /\ callerPc \notin {"stop_stream", "set_stream"}
          => ((sink # None) <=> (stream # None))
    /\ callerPc = "stop_stream" => sink = None
    /\ callerPc = "set_stream" => sink = CallId /\ stream = None

C14_Witness ==
    /\ callerPc = "stop_stream"
    /\ sink = None
    /\ stream # None
    /\ \E w \in DOMAIN watchers : watchers[w].pc = "poll"

\* No play() or stop() call is in progress.
CallerOutside == callerPc \in {"idle", "returned"}

\* The watcher of call k has confirmed a natural finish, and nothing was called
\* since.
FinishConfirmed(k) ==
    /\ k = CallId
    /\ PlayedOk(k)
    /\ HasEmitted(k)
    /\ watchers[k].pc = "done"

\* C15 as claimed: after a stop(), and after a watcher confirmed a natural finish,
\* the engine holds no sink, and whenever current_path is None outside of a
\* play/stop call no sink is held.
C15_NoSinkAfterFinish ==
    CallerOutside =>
        /\ (CallId > 0 /\ callLog[CallId].op = "stop_audio") => sink = None
        /\ FinishConfirmed(CallId) => sink = None
        /\ current_path = None => sink = None

\* C15, amended: outside of a play/stop call the sink is present if and only if
\* the latest call was a successful play_audio: none after a stop() or a failed
\* play, but the sink and device of a play stay installed after its watcher
\* confirmed the natural finish; and current_path is Some only while they are.
C15_SinkHeldUntilNextCall ==
    CallerOutside =>
        /\ (sink # None) <=> PlayedOk(CallId)
        /\ sink # None => sink = CallId /\ stream = CallId
        /\ FinishConfirmed(CallId) => sink = CallId
        /\ current_path # None
              => sink # None /\ current_path = callLog[CallId].path

C15_Witness ==
    /\ callerPc = "idle"
    /\ FinishConfirmed(CallId)
    /\ current_path = None
    /\ sink = CallId
    /\ sink \in drained

\* Since watcher w was spawned a stop_audio has returned, and no play_audio has
\* been called after it.
StoppedSince(w) ==
    \E k \in (w + 1)..Len(callLog) :
        /\ callLog[k].op = "stop_audio"
        /\ callLog[k].res = "Ok"
        /\ \A j \in (k + 1)..Len(callLog) : callLog[j].op # "play_audio"

\* C16: when stop() has run to completion and no play has been issued since, a
\* watcher that polls reads the sink as absent and goes on to compare the paths,
\* finds current_path None, emits nothing and terminates.
C16_PollAfterStop ==
    [][\A w \in DOMAIN watchers :
          StoppedSince(w) =>
              /\ sink = None /\ current_path = None
              /\ (watchers[w].pc = "poll" /\ watchers'[w] # watchers[w])
                    => watchers'[w].pc = "check"
              /\ (watchers[w].pc = "check" /\ watchers'[w] # watchers[w])
                    => watchers'[w].pc = "done" /\ emitted' = emitted]_vars

C16_Witness ==
    /\ CallId = 2
    /\ PlayedOk(1)
    /\ 1 \notin drained
    /\ StoppedSince(1)
    /\ watchers[1].pc = "done"
    /\ emitted = <<>>

\* Call k is a play_audio whose play() has returned Ok.
PlaySucceeded(k) ==
    /\ callLog[k].op = "play_audio"
    /\ \/ callLog[k].res = "Ok"
       \/ k = CallId /\ callLog[k].res = "running" /\ callerPc \in {"set_path", "spawn"}

\* C20: current_path is None or the path of the most recent successful play_audio
\* call; only play_audio writes a Some value, stop() and the watchers write None.
C20_PathOfLatestPlay ==
    /\ [](current_path # None =>
              \E k \in 1..Len(callLog) :
                  /\ PlaySucceeded(k)
                  /\ \A j \in (k + 1)..Len(callLog) : ~PlaySucceeded(j)
                  /\ current_path = callLog[k].path)
    /\ [][/\ (current_path' # current_path /\ current_path' # None) =>
                 /\ callerPc = "set_path"
                 /\ current_path' = path
          /\ (current_path' # current_path /\ callerPc # "set_path") =>
                 current_path' = None]_vars

C20_Witness ==
    /\ CallId = 3
    /\ PlayedOk(1)
    /\ PlayedOk(2)
    /\ callLog[1].path # callLog[2].path
    /\ callLog[3].op = "play_audio"
    /\ callLog[3].res = "Err"
    /\ callLog[3].path = callLog[1].path
    /\ \E w \in DOMAIN watchers : watchers[w].pc = "poll"

\* The number of events watcher w has sent.
Emissions(w) == Cardinality({n \in 1..Len(emitted) : emitted[n].by = w})

\* Every installed sink eventually becomes empty or is removed: a sink is never
\* installed twice and an empty sink stays empty, so from some point on the
\* installed sink, if any, is empty.
SinksEndEventually == <>[](sink = None \/ sink \in drained)

\* C17: if every installed sink eventually becomes empty or is removed by stop(),
\* each spawned watcher eventually leaves its polling loop and terminates, and no
\* watcher emits more than once.
C17_WatcherTerminates ==
    /\ [](\A w \in DOMAIN watchers : Emissions(w) <= 1)
    /\ SinksEndEventually =>
           \A w \in 1..MaxFairCalls :
               (w \in DOMAIN watchers)
                   ~> (w \in DOMAIN watchers /\ watchers[w].pc = "done")

C17_Witness ==
    /\ CallId = 2
    /\ PlayedOk(1)
    /\ PlayedOk(2)
    /\ 1 \notin drained
    /\ watchers[1].pc = "done"
    /\ watchers[2].pc = "done"
    /\ ~HasEmitted(1)
    /\ HasEmitted(2)

\* Thread t is blocked in lock() on a mutex another thread holds.
Blocked(t) ==
    /\ lockProg[t] # <<>>
    /\ Head(lockProg[t]).a = "lock"
    /\ IsLocked(Head(lockProg[t]).m)

\* C19: no thread holds more than one of the three mutexes at a time, so a thread
\* that holds one is never itself waiting for another, and whenever some thread is
\* inside a method some thread can take its next step: there is no deadlock.
C19_OneLockAtATime ==
    /\ \A t \in Threads : Cardinality(held[t]) <= 1
    /\ \A t \in Threads : Blocked(t) => held[t] = {}
    /\ \A t \in Threads :
          Blocked(t) =>
              \E u \in Threads \ {t} :
                  /\ Head(lockProg[t]).m \in held[u]
                  /\ Head(lockProg[u]).a = "unlock"
    /\ (\E t \in Threads : lockProg[t] # <<>>)
          => \E t \in Threads : lockProg[t] # <<>> /\ ~Blocked(t)

C19_Witness ==
    /\ held[CommandThread] = {"sink"}
    /\ Len(lockProg[CommandThread]) > 6
    /\ Blocked(1)
    /\ held[2] = {"current_path"}

=============================================================================
